---- MODULE Spec2Model ----
(***************************************************************************)
(* State-machine model of the ui-workflow engine (src/core/engine.ts):    *)
(* createWorkflow, startWorkflow, applyTransition, runUntilStable,        *)
(* startWorkflowAndRun and sendEvent, driven by one caller that holds one *)
(* instance.  Guards and hooks are the functions of the definition; they  *)
(* are modelled by a small vocabulary of behaviours over a context with   *)
(* one field, ready.  The context object is shared by reference between   *)
(* all snapshots of one instance, so a hook's mutation is visible in      *)
(* every snapshot: the model keeps the value of that one object in the    *)
(* ctx field of whichever instance record is being handed on.             *)
(* A second state machine, ProviderSpec, models the React provider         *)
(* (src/react/WorkflowProvider.tsx): mount, send, can, setContext and     *)
(* updateContext over the instance it holds as React state.                *)
(***************************************************************************)
EXTENDS Integers, Sequences, FiniteSets, TLC

\* ------------------------------------------------------------------ bounds
MaxClock == 2
MaxHistory == 5
\* iterations of runUntilStable within one call made by the provider
MaxCascade == 4
\* send calls of the provider that have not resolved
MaxSends == 2

\* ------------------------------------------------- absent optional values
Undefined == "undefined"
NoTime == 0
NoError == "none"

\* ------------------------------------------------------------ vocabulary
Contexts == { [ready |-> FALSE], [ready |-> TRUE] }
Events == { "GO", "NEXT", "" }

\* `!t.event`, `!entry.leftAt`: undefined and the empty string are falsy
Falsy(s) == s = Undefined \/ s = ""

\* A guard is a predicate over the context that returns or throws.
EvalGuard(g, ctx) ==
  CASE g = "isReady"  -> [ok |-> TRUE,  value |-> ctx.ready,  err |-> NoError]
    [] g = "notReady" -> [ok |-> TRUE,  value |-> ~ctx.ready, err |-> NoError]
    [] g = "deny"     -> [ok |-> TRUE,  value |-> FALSE,      err |-> NoError]
    [] g = "throwG"   -> [ok |-> FALSE, value |-> FALSE,      err |-> "G"]
    [] OTHER          -> [ok |-> TRUE,  value |-> TRUE,       err |-> NoError]

\* An action (onExit, action, onEnter) mutates the context in place and
\* returns, or throws.
RunAction(a, ctx) ==
  CASE a = "setReady"   -> [ok |-> TRUE,  ctx |-> [ctx EXCEPT !.ready = TRUE],  err |-> NoError]
    [] a = "clearReady" -> [ok |-> TRUE,  ctx |-> [ctx EXCEPT !.ready = FALSE], err |-> NoError]
    [] a = "throwX"     -> [ok |-> FALSE, ctx |-> ctx, err |-> "X"]
    [] a = "throwA"     -> [ok |-> FALSE, ctx |-> ctx, err |-> "A"]
    [] a = "throwE"     -> [ok |-> FALSE, ctx |-> ctx, err |-> "E"]
    [] OTHER            -> [ok |-> TRUE,  ctx |-> ctx, err |-> NoError]

\* ------------------------------------------------------------ definitions
Tr(id, target, event, guard, action) ==
  [id |-> id, target |-> target, event |-> event, guard |-> guard, action |-> action]

St(id, type, onEnter, onExit, transitions) ==
  [id |-> id, type |-> type, onEnter |-> onEnter, onExit |-> onExit,
   transitions |-> transitions]

U == Undefined

\* A (task) --GO--> B (auto) --[ready]--> C (end); every hook present.
Approval ==
  [id |-> "approval", initialState |-> "A",
   states |->
     [A |-> St("A", "task", "clearReady", "noop",
               << Tr("A::B::GO", "B", "GO", U, "noop"),
                  Tr("A::C::NEXT", "C", "NEXT", "isReady", U) >>),
      B |-> St("B", "auto", "noop", "noop",
               << Tr("B::C::AUTO", "C", U, "isReady", "noop"),
                  Tr("B::A::NEXT", "A", "NEXT", U, U) >>),
      C |-> St("C", "end", "noop", U, << >>)]]

\* Several candidates for one event; the guards decide in definition order.
FirstMatch ==
  [id |-> "firstMatch", initialState |-> "A",
   states |->
     [A |-> St("A", "task", U, U,
               << Tr("t1", "B", "GO", "isReady", "clearReady"),
                  Tr("t2", "C", "GO", U, "setReady"),
                  Tr("t3", "D", "GO", U, "throwA"),
                  Tr("t4", "B", "NEXT", "deny", "noop"),
                  Tr("t5", "D", "NEXT", "notReady", "noop") >>),
      B |-> St("B", "task", "noop", "noop",
               << Tr("b1", "A", "GO", U, U) >>),
      C |-> St("C", "auto", "noop", U,
               << Tr("c1", "B", U, "notReady", U),
                  Tr("c2", "D", U, "isReady", "noop"),
                  Tr("c3", "A", U, U, "throwA") >>),
      D |-> St("D", "end", U, U, << >>)]]

\* Every way a dispatch can fail: guard, onExit, action, onEnter, target.
Faulty ==
  [id |-> "faulty", initialState |-> "A",
   states |->
     [A |-> St("A", "task", U, "setReady",
               << Tr("a1", "B", "GO", "throwG", "noop"),
                  Tr("a2", "B", "GO", U, "noop"),
                  Tr("a3", "E", "NEXT", "isReady", "clearReady"),
                  Tr("a4", "Z", "NEXT", "notReady", "noop"),
                  Tr(U, "X", "", U, "throwA") >>),
      B |-> St("B", "task", U, U, << >>),
      E |-> St("E", "task", "throwE", U, << >>),
      X |-> St("X", "task", U, "throwX", << >>)]]

\* A cascade through auto states, with failures on the way.
Cascade ==
  [id |-> "cascade", initialState |-> "S",
   states |->
     [S |-> St("S", "auto", "throwE", "noop",
               << Tr("s0", "A", "GO", U, U),
                  Tr("s1", "A", U, U, "noop") >>),
      A |-> St("A", "task", "noop", "noop",
               << Tr("a1", "P", "GO", "notReady", "noop"),
                  Tr("a2", "D", "NEXT", "notReady", U),
                  Tr("a3", "R", "", U, U),
                  Tr("a4", "H", "GO", U, U),
                  Tr("a5", "D", "NEXT", U, U) >>),
      P |-> St("P", "auto", "setReady", U,
               << Tr("p1", "Q", U, "isReady", U) >>),
      Q |-> St("Q", "auto", U, "noop",
               << Tr("q1", "G", U, "deny", "noop"),
                  Tr("q2", "F", U, "isReady", "clearReady") >>),
      D |-> St("D", "auto", U, U,
               << Tr("d0", "G", U, "isReady", U),
                  Tr("d1", "Z", U, U, "noop") >>),
      H |-> St("H", "auto", U, U,
               << Tr("h1", "F", U, "throwG", U),
                  Tr("h2", "F", U, U, U) >>),
      R |-> St("R", "auto", U, U,
               << Tr("r1", "S", "GO", U, U) >>),
      F |-> St("F", "end", "noop", U, << >>),
      G |-> St("G", "end", "throwE", U, << >>)]]

\* Auto states connected in a cycle by event-less transitions.
Cycle ==
  [id |-> "cycle", initialState |-> "A",
   states |->
     [A |-> St("A", "auto", "noop", U,
               << Tr("a1", "B", U, U, U) >>),
      B |-> St("B", "auto", U, U,
               << Tr("b1", "A", U, "notReady", U),
                  Tr("b2", "T", "", U, U) >>),
      T |-> St("T", "task", U, U, << >>)]]

\* The initial state is itself an end state.
EndFirst ==
  [id |-> "endFirst", initialState |-> "E",
   states |->
     [E |-> St("E", "end", "noop", U,
               << Tr("e1", "F", "GO", U, U) >>),
      F |-> St("F", "task", U, U, << >>)]]

\* A state registered under a key that differs from its own id.
Misfiled ==
  [id |-> "misfiled", initialState |-> "A",
   states |->
     [A |-> St("A", "task", U, U,
               << Tr("a1", "B", "GO", U, U) >>),
      B |-> St("Bx", "auto", U, U,
               << Tr("b1", "A", U, U, U) >>)]]

\* The initial state is an auto state that waits for the context.
Waiting ==
  [id |-> "waiting", initialState |-> "W",
   states |->
     [W |-> St("W", "auto", U, "noop",
               << Tr("w1", "E", U, "isReady", "noop"),
                  Tr("w2", "E", "GO", U, U) >>),
      E |-> St("E", "end", U, U, << >>)]]

\* The initial state is not a state of the definition.
NoInitial ==
  [id |-> "noInitial", initialState |-> "Q",
   states |->
     [A |-> St("A", "task", U, U, << >>)]]

Configs ==
  { Approval, FirstMatch, Faulty, Cascade, Cycle, EndFirst, Misfiled, Waiting,
    NoInitial }

NoWorkflow == [id |-> Undefined, initialState |-> Undefined, states |-> << >>]

\* ------------------------------------------------------------------ engine
\* One record of the audit trail kept by the model: a guard or hook that
\* was invoked, where it is defined, and the value it threw (NoError if it
\* returned).  idx is the position of the transition in its state's list;
\* it is 0 for onExit and onEnter; by is the engine function (sendEvent or
\* runUntilStable) whose candidate loop made the call.
Call(hook, state, idx, err) ==
  [hook |-> hook, state |-> state, idx |-> idx, err |-> err, by |-> Undefined]

\* the same records, marked with the function whose candidate loop made them
CalledBy(calls, by) ==
  [i \in 1..Len(calls) |-> [calls[i] EXCEPT !.by = by]]

HasState(workflow, key) == key \in DOMAIN workflow.states

\* createWorkflow accepts a definition iff its initial state exists.
createWorkflowAccepts(config) == HasState(config, config.initialState)

\* variant of startWorkflow that checks whether the initial state is an end
\* state and completes the instance at once
startWorkflowChecked(workflow, initialCtx, now) ==
  [workflowId   |-> workflow.id,
   currentState |-> workflow.initialState,
   ctx          |-> initialCtx,
   history      |-> << [stateId |-> workflow.initialState, enteredAt |-> now,
                        leftAt |-> NoTime, transitionId |-> Undefined,
                        event |-> Undefined] >>,
   status       |-> IF workflow.states[workflow.initialState].type = "end"
                      THEN "completed" ELSE "running",
   error        |-> NoError]

startWorkflow(workflow, initialCtx, now) ==
  [workflowId   |-> workflow.id,
   currentState |-> workflow.initialState,
   ctx          |-> initialCtx,
   history      |-> << [stateId |-> workflow.initialState, enteredAt |-> now,
                        leftAt |-> NoTime, transitionId |-> Undefined,
                        event |-> Undefined] >>,
   status       |-> "running",
   error        |-> NoError]

\* variant of CloseLast that leaves the open entry open
CloseLastUnstamped(history, now) == history

\* instance.history.map(...): stamps leftAt on the last entry if it is open
CloseLast(history, now) ==
  [idx \in 1..Len(history) |->
     IF idx = Len(history) /\ history[idx].leftAt = NoTime
       THEN [history[idx] EXCEPT !.leftAt = now]
       ELSE history[idx]]

\* the outcome of applyTransition when it throws: the thrown value, the
\* context as the hooks left it, and the hooks that ran
Thrown(err, ctx, calls) ==
  [ok |-> FALSE, err |-> err, ctx |-> ctx, calls |-> calls, instance |-> << >>]

StateNotFound(key) == "state not found"
TargetNotFound(key) == "target not found"

\* variant of EnterTarget that does not wait for onEnter, so that its
\* failure goes unnoticed
EnterTargetUnawaited(workflow, instance, transition, ctx, calls, updatedHistory) ==
  LET targetState == workflow.states[transition.target]
      r == IF targetState.onEnter # Undefined
             THEN RunAction(targetState.onEnter, ctx)
             ELSE [ok |-> TRUE, ctx |-> ctx, err |-> NoError]
      calls3 == IF targetState.onEnter # Undefined
                  THEN Append(calls, Call("onEnter", transition.target, 0, r.err))
                  ELSE calls
  IN [ok |-> TRUE, err |-> NoError, ctx |-> r.ctx, calls |-> calls3,
      instance |-> [instance EXCEPT
                      !.currentState = targetState.id,
                      !.ctx = r.ctx,
                      !.history = updatedHistory,
                      !.status = IF targetState.type = "end"
                                   THEN "completed" ELSE "running"]]

\* variant of EnterTarget that takes the new currentState from the
\* transition's target key instead of the target state's id
EnterTargetByKey(workflow, instance, transition, ctx, calls, updatedHistory) ==
  LET targetState == workflow.states[transition.target]
      r == IF targetState.onEnter # Undefined
             THEN RunAction(targetState.onEnter, ctx)
             ELSE [ok |-> TRUE, ctx |-> ctx, err |-> NoError]
      calls3 == IF targetState.onEnter # Undefined
                  THEN Append(calls, Call("onEnter", transition.target, 0, r.err))
                  ELSE calls
  IN IF ~r.ok THEN Thrown(r.err, r.ctx, calls3)
     ELSE [ok |-> TRUE, err |-> NoError, ctx |-> r.ctx, calls |-> calls3,
           instance |-> [instance EXCEPT
                           !.currentState = transition.target,
                           !.ctx = r.ctx,
                           !.history = updatedHistory,
                           !.status = IF targetState.type = "end"
                                        THEN "completed" ELSE "running"]]

\* variant of EnterTarget that leaves the status as it was
EnterTargetKeepStatus(workflow, instance, transition, ctx, calls, updatedHistory) ==
  LET targetState == workflow.states[transition.target]
      r == IF targetState.onEnter # Undefined
             THEN RunAction(targetState.onEnter, ctx)
             ELSE [ok |-> TRUE, ctx |-> ctx, err |-> NoError]
      calls3 == IF targetState.onEnter # Undefined
                  THEN Append(calls, Call("onEnter", transition.target, 0, r.err))
                  ELSE calls
  IN IF ~r.ok THEN Thrown(r.err, r.ctx, calls3)
     ELSE [ok |-> TRUE, err |-> NoError, ctx |-> r.ctx, calls |-> calls3,
           instance |-> [instance EXCEPT
                           !.currentState = targetState.id,
                           !.ctx = r.ctx,
                           !.history = updatedHistory]]

\* the onEnter step and the construction of the updated instance
EnterTarget(workflow, instance, transition, ctx, calls, updatedHistory) ==
  LET targetState == workflow.states[transition.target]
      r == IF targetState.onEnter # Undefined
             THEN RunAction(targetState.onEnter, ctx)
             ELSE [ok |-> TRUE, ctx |-> ctx, err |-> NoError]
      calls3 == IF targetState.onEnter # Undefined
                  THEN Append(calls, Call("onEnter", transition.target, 0, r.err))
                  ELSE calls
  IN IF ~r.ok THEN Thrown(r.err, r.ctx, calls3)
     ELSE [ok |-> TRUE, err |-> NoError, ctx |-> r.ctx, calls |-> calls3,
           instance |-> [instance EXCEPT
                           !.currentState = targetState.id,
                           !.ctx = r.ctx,
                           !.history = updatedHistory,
                           !.status = IF targetState.type = "end"
                                        THEN "completed" ELSE "running"]]

\* variant of applyTransition that runs the transition's action before the
\* source state's onExit
applyTransitionActionFirst(workflow, instance, transition, idx, event, now) ==
  IF ~HasState(workflow, instance.currentState)
    THEN Thrown(StateNotFound(instance.currentState), instance.ctx, << >>)
  ELSE IF ~HasState(workflow, transition.target)
    THEN Thrown(TargetNotFound(transition.target), instance.ctx, << >>)
  ELSE
    LET currentState == workflow.states[instance.currentState]
        targetState == workflow.states[transition.target]
        r1 == IF transition.action # Undefined
                THEN RunAction(transition.action, instance.ctx)
                ELSE [ok |-> TRUE, ctx |-> instance.ctx, err |-> NoError]
        calls1 == IF transition.action # Undefined
                    THEN << Call("action", instance.currentState, idx, r1.err) >>
                    ELSE << >>
    IN IF ~r1.ok THEN Thrown(r1.err, r1.ctx, calls1)
       ELSE
         LET r2 == IF currentState.onExit # Undefined
                     THEN RunAction(currentState.onExit, r1.ctx)
                     ELSE [ok |-> TRUE, ctx |-> r1.ctx, err |-> NoError]
             calls2 == IF currentState.onExit # Undefined
                         THEN Append(calls1, Call("onExit", instance.currentState, 0, r2.err))
                         ELSE calls1
         IN IF ~r2.ok THEN Thrown(r2.err, r2.ctx, calls2)
            ELSE
              LET updatedHistory ==
                    Append(CloseLast(instance.history, now),
                           [stateId |-> targetState.id, enteredAt |-> now,
                            leftAt |-> NoTime, transitionId |-> transition.id,
                            event |-> event])
              IN EnterTarget(workflow, instance, transition, r2.ctx, calls2,
                             updatedHistory)

\* variant of applyTransition that looks the target state up only when it
\* builds the history entry, after onExit and the action have run
applyTransitionLateLookup(workflow, instance, transition, idx, event, now) ==
  IF ~HasState(workflow, instance.currentState)
    THEN Thrown(StateNotFound(instance.currentState), instance.ctx, << >>)
  ELSE
    LET currentState == workflow.states[instance.currentState]
        r1 == IF currentState.onExit # Undefined
                THEN RunAction(currentState.onExit, instance.ctx)
                ELSE [ok |-> TRUE, ctx |-> instance.ctx, err |-> NoError]
        calls1 == IF currentState.onExit # Undefined
                    THEN << Call("onExit", instance.currentState, 0, r1.err) >>
                    ELSE << >>
    IN IF ~r1.ok THEN Thrown(r1.err, r1.ctx, calls1)
       ELSE
         LET r2 == IF transition.action # Undefined
                     THEN RunAction(transition.action, r1.ctx)
                     ELSE [ok |-> TRUE, ctx |-> r1.ctx, err |-> NoError]
             calls2 == IF transition.action # Undefined
                         THEN Append(calls1, Call("action", instance.currentState, idx, r2.err))
                         ELSE calls1
         IN IF ~r2.ok THEN Thrown(r2.err, r2.ctx, calls2)
            ELSE IF ~HasState(workflow, transition.target)
              THEN Thrown(TargetNotFound(transition.target), r2.ctx, calls2)
            ELSE
              LET updatedHistory ==
                    Append(CloseLast(instance.history, now),
                           [stateId |-> workflow.states[transition.target].id,
                            enteredAt |-> now, leftAt |-> NoTime,
                            transitionId |-> transition.id, event |-> event])
              IN EnterTarget(workflow, instance, transition, r2.ctx, calls2,
                             updatedHistory)

applyTransition(workflow, instance, transition, idx, event, now) ==
  IF ~HasState(workflow, instance.currentState)
    THEN Thrown(StateNotFound(instance.currentState), instance.ctx, << >>)
  ELSE IF ~HasState(workflow, transition.target)
    THEN Thrown(TargetNotFound(transition.target), instance.ctx, << >>)
  ELSE
    LET currentState == workflow.states[instance.currentState]
        targetState == workflow.states[transition.target]
        r1 == IF currentState.onExit # Undefined
                THEN RunAction(currentState.onExit, instance.ctx)
                ELSE [ok |-> TRUE, ctx |-> instance.ctx, err |-> NoError]
        calls1 == IF currentState.onExit # Undefined
                    THEN << Call("onExit", instance.currentState, 0, r1.err) >>
                    ELSE << >>
    IN IF ~r1.ok THEN Thrown(r1.err, r1.ctx, calls1)
       ELSE
         LET r2 == IF transition.action # Undefined
                     THEN RunAction(transition.action, r1.ctx)
                     ELSE [ok |-> TRUE, ctx |-> r1.ctx, err |-> NoError]
             calls2 == IF transition.action # Undefined
                         THEN Append(calls1, Call("action", instance.currentState, idx, r2.err))
                         ELSE calls1
         IN IF ~r2.ok THEN Thrown(r2.err, r2.ctx, calls2)
            ELSE
              LET updatedHistory ==
                    Append(CloseLast(instance.history, now),
                           [stateId |-> targetState.id, enteredAt |-> now,
                            leftAt |-> NoTime, transitionId |-> transition.id,
                            event |-> event])
              IN EnterTarget(workflow, instance, transition, r2.ctx, calls2,
                             updatedHistory)

\* `{ ...instance, status: "error", error: err }`; the context is the
\* shared object, as the hooks that ran have left it
Errored(instance, err, ctx) ==
  [instance EXCEPT !.status = "error", !.error = err, !.ctx = ctx]

\* filter: the positions that are kept (keep[i] is the filter's verdict on
\* the i-th transition), in definition order
RECURSIVE Positions(_, _)
Positions(keep, from) ==
  IF from > Len(keep) THEN << >>
  ELSE IF keep[from]
    THEN << from >> \o Positions(keep, from + 1)
    ELSE Positions(keep, from + 1)

\* variant of AutoCandidates without the filter on the event
AutoCandidatesAll(state) ==
  Positions([i \in 1..Len(state.transitions) |-> TRUE], 1)

\* variant of AutoCandidates that offers only the first event-less transition
AutoCandidatesFirstOnly(state) ==
  LET all == Positions([i \in 1..Len(state.transitions) |->
                          Falsy(state.transitions[i].event)], 1)
  IN IF all = << >> THEN << >> ELSE << Head(all) >>

\* transitions.filter((t) => !t.event)
AutoCandidates(state) ==
  Positions([i \in 1..Len(state.transitions) |-> Falsy(state.transitions[i].event)], 1)

RECURSIVE Reverse(_)
Reverse(seq) == IF seq = << >> THEN << >> ELSE Append(Reverse(Tail(seq)), Head(seq))

\* variant of EventCandidates that yields the candidates in reverse order
EventCandidatesReversed(state, ev) ==
  Reverse(Positions([i \in 1..Len(state.transitions) |-> state.transitions[i].event = ev], 1))

\* currentState.transitions.filter((t) => t.event === event)
EventCandidates(state, ev) ==
  Positions([i \in 1..Len(state.transitions) |-> state.transitions[i].event = ev], 1)

\* variant of GuardPass that catches a throwing guard per candidate and
\* counts it as a guard that returned false
GuardPassCaught(t, ctx) ==
  IF t.guard # Undefined
    THEN LET g == EvalGuard(t.guard, ctx)
         IN [ok |-> TRUE, value |-> g.ok /\ g.value, err |-> g.err]
  ELSE [ok |-> TRUE, value |-> TRUE, err |-> NoError]

\* `t.guard ? await t.guard(ctx) : true`
GuardPass(t, ctx) ==
  IF t.guard # Undefined THEN EvalGuard(t.guard, ctx)
  ELSE [ok |-> TRUE, value |-> TRUE, err |-> NoError]

GuardCalls(t, key, idx, calls, g) ==
  IF t.guard # Undefined THEN Append(calls, Call("guard", key, idx, g.err)) ELSE calls

\* variant of StabilizeCatch that throws the error on to the caller
StabilizeCatchRethrow(current, err, ctx, calls) ==
  [kind |-> "return", instance |-> current, calls |-> calls, raised |-> TRUE]

\* the catch clause of runUntilStable's candidate loop
StabilizeCatch(current, err, ctx, calls) ==
  [kind |-> "return", instance |-> Errored(current, err, ctx), calls |-> calls,
   raised |-> FALSE]

\* `for (const t of candidates)` in runUntilStable
RECURSIVE StabilizeCandidates(_, _, _, _, _)
StabilizeCandidates(workflow, current, candidates, calls, now) ==
  IF candidates = << >>
    THEN [kind |-> "return", instance |-> current, calls |-> calls, raised |-> FALSE]
  ELSE
    LET idx == Head(candidates)
        t == workflow.states[current.currentState].transitions[idx]
        g == GuardPass(t, current.ctx)
        calls1 == GuardCalls(t, current.currentState, idx, calls, g)
    IN IF ~g.ok THEN StabilizeCatch(current, g.err, current.ctx, calls1)
       ELSE IF ~g.value
         THEN StabilizeCandidates(workflow, current, Tail(candidates), calls1, now)
       ELSE
         LET a == applyTransition(workflow, current, t, idx, Undefined, now)
         IN IF a.ok
              THEN [kind |-> "moved", instance |-> a.instance,
                    calls |-> calls1 \o a.calls, raised |-> FALSE]
              ELSE StabilizeCatch(current, a.err, a.ctx, calls1 \o a.calls)

\* variant of StabilizeStep whose loop ends before its first iteration
StabilizeStepIdle(workflow, current, now) ==
  [kind |-> "return", instance |-> current, calls |-> << >>, raised |-> FALSE]

\* variant of StabilizeStep that gives up with an error once the history
\* has three entries
StabilizeStepBounded(workflow, current, now) ==
  IF current.status # "running"
    THEN [kind |-> "return", instance |-> current, calls |-> << >>, raised |-> FALSE]
  ELSE IF Len(current.history) >= 3
    THEN [kind |-> "return",
          instance |-> Errored(current, "too many iterations", current.ctx),
          calls |-> << >>, raised |-> FALSE]
  ELSE IF ~HasState(workflow, current.currentState)
    THEN [kind |-> "return",
          instance |-> Errored(current, StateNotFound(current.currentState), current.ctx),
          calls |-> << >>, raised |-> FALSE]
  ELSE IF workflow.states[current.currentState].type # "auto"
    THEN [kind |-> "return", instance |-> current, calls |-> << >>, raised |-> FALSE]
  ELSE
    StabilizeCandidates(workflow, current,
                        AutoCandidates(workflow.states[current.currentState]),
                        << >>, now)

\* one evaluation of runUntilStable's while condition and body: either the
\* loop moves to the next instance ("moved") or the function returns
StabilizeStep(workflow, current, now) ==
  IF current.status # "running"
    THEN [kind |-> "return", instance |-> current, calls |-> << >>, raised |-> FALSE]
  ELSE IF ~HasState(workflow, current.currentState)
    THEN [kind |-> "return",
          instance |-> Errored(current, StateNotFound(current.currentState), current.ctx),
          calls |-> << >>, raised |-> FALSE]
  ELSE IF workflow.states[current.currentState].type # "auto"
    THEN [kind |-> "return", instance |-> current, calls |-> << >>, raised |-> FALSE]
  ELSE
    StabilizeCandidates(workflow, current,
                        AutoCandidates(workflow.states[current.currentState]),
                        << >>, now)

\* variant of DispatchCatch that swallows the error
DispatchCatchSwallow(instance, err, ctx, calls) ==
  [kind |-> "return", instance |-> [instance EXCEPT !.ctx = ctx],
   transitioned |-> FALSE, calls |-> calls, raised |-> FALSE]

\* the catch clause of sendEvent's candidate loop
DispatchCatch(instance, err, ctx, calls) ==
  [kind |-> "return", instance |-> Errored(instance, err, ctx),
   transitioned |-> FALSE, calls |-> calls, raised |-> FALSE]

\* variant of NotTransitioned that hands the unmoved instance on to
\* runUntilStable all the same
NotTransitionedStabilize(instance, calls) ==
  [kind |-> "applied", instance |-> instance, transitioned |-> FALSE,
   calls |-> calls, raised |-> FALSE]

NotTransitioned(instance, calls) ==
  [kind |-> "return", instance |-> instance, transitioned |-> FALSE,
   calls |-> calls, raised |-> FALSE]

\* `for (const t of candidates)` in sendEvent, up to the call of
\* runUntilStable
RECURSIVE DispatchCandidates(_, _, _, _, _, _)
DispatchCandidates(workflow, instance, candidates, event, calls, now) ==
  IF candidates = << >> THEN NotTransitioned(instance, calls)
  ELSE
    LET idx == Head(candidates)
        t == workflow.states[instance.currentState].transitions[idx]
        g == GuardPass(t, instance.ctx)
        calls1 == GuardCalls(t, instance.currentState, idx, calls, g)
    IN IF ~g.ok THEN DispatchCatch(instance, g.err, instance.ctx, calls1)
       ELSE IF ~g.value
         THEN DispatchCandidates(workflow, instance, Tail(candidates), event, calls1, now)
       ELSE
         LET a == applyTransition(workflow, instance, t, idx, event, now)
         IN IF a.ok
              THEN [kind |-> "applied", instance |-> a.instance,
                    transitioned |-> TRUE, calls |-> calls1 \o a.calls,
                    raised |-> FALSE]
              ELSE DispatchCatch(instance, a.err, a.ctx, calls1 \o a.calls)

\* variant of Dispatch without the check of instance.status
DispatchAnyStatus(workflow, instance, event, now) ==
  IF ~HasState(workflow, instance.currentState) THEN NotTransitioned(instance, << >>)
  ELSE IF Len(workflow.states[instance.currentState].transitions) = 0
    THEN NotTransitioned(instance, << >>)
  ELSE
    DispatchCandidates(workflow, instance,
                       EventCandidates(workflow.states[instance.currentState], event),
                       event, << >>, now)

\* sendEvent up to the point where it hands the updated instance to
\* runUntilStable ("applied") or returns without having moved ("return")
Dispatch(workflow, instance, event, now) ==
  IF instance.status # "running" THEN NotTransitioned(instance, << >>)
  ELSE IF ~HasState(workflow, instance.currentState) THEN NotTransitioned(instance, << >>)
  ELSE IF Len(workflow.states[instance.currentState].transitions) = 0
    THEN NotTransitioned(instance, << >>)
  ELSE
    DispatchCandidates(workflow, instance,
                       EventCandidates(workflow.states[instance.currentState], event),
                       event, << >>, now)

\* ----------------------------------------------------------- state machine
VARIABLES
  workflow,      \* the definition returned by createWorkflow
  pc,            \* "config", "rejected", "created", "idle", "stabilizing"
  instance,      \* the instance the caller holds (result of the last call)
  call,          \* the engine function in progress, or the last one called
  event,         \* the event of that call, for sendEvent
  arg,           \* the instance that call was given
  current,       \* runUntilStable's loop variable (NoInstance when the last
                 \* call did not reach runUntilStable)
  transitioned,  \* the transitioned flag of the last sendEvent result
  raised,        \* whether the last call threw instead of returning
  trace,         \* guards and hooks invoked by that call, in order
  clock,         \* the time new Date() reports
  sends,         \* the provider's send calls that have not resolved yet
  answer         \* what the provider's last can call resolved to

vars == << workflow, pc, instance, call, event, arg, current, transitioned,
           raised, trace, clock, sends, answer >>

NoInstance ==
  [workflowId |-> Undefined, currentState |-> Undefined,
   ctx |-> [ready |-> FALSE], history |-> << >>, status |-> Undefined,
   error |-> NoError]

\* no can call has resolved yet
NoAnswer ==
  [event |-> Undefined,
   result |-> [ok |-> TRUE, value |-> FALSE, err |-> NoError]]

Init ==
  /\ workflow = NoWorkflow
  /\ pc = "config"
  /\ instance = NoInstance
  /\ call = "none"
  /\ event = Undefined
  /\ arg = NoInstance
  /\ current = NoInstance
  /\ transitioned = FALSE
  /\ raised = FALSE
  /\ trace = << >>
  /\ clock = 1
  /\ sends = << >>
  /\ answer = NoAnswer

\* createWorkflow(config): throws unless the initial state is defined
CreateWorkflow(config) ==
  /\ pc = "config"
  /\ call' = "createWorkflow"
  /\ IF createWorkflowAccepts(config)
       THEN workflow' = config /\ pc' = "created" /\ raised' = FALSE
       ELSE workflow' = workflow /\ pc' = "rejected" /\ raised' = TRUE
  /\ UNCHANGED << instance, event, arg, current, transitioned, trace, clock,
                  sends, answer >>

\* variant of StartWorkflow that runs the initial state's onEnter
StartWorkflowEntering(initialCtx) ==
  /\ pc = "created"
  /\ LET onEnter == workflow.states[workflow.initialState].onEnter
         r == RunAction(onEnter, initialCtx)
     IN /\ instance' = startWorkflow(workflow, r.ctx, clock)
        /\ trace' = IF onEnter # Undefined
                      THEN << Call("onEnter", workflow.initialState, 0, r.err) >>
                      ELSE << >>
  /\ pc' = "idle"
  /\ call' = "startWorkflow"
  /\ raised' = FALSE
  /\ UNCHANGED << workflow, event, arg, current, transitioned, clock, sends,
                  answer >>

\* startWorkflow(workflow, initialCtx)
StartWorkflow(initialCtx) ==
  /\ pc = "created"
  /\ instance' = startWorkflow(workflow, initialCtx, clock)
  /\ pc' = "idle"
  /\ call' = "startWorkflow"
  /\ trace' = << >>
  /\ raised' = FALSE
  /\ UNCHANGED << workflow, event, arg, current, transitioned, clock, sends,
                  answer >>

\* startWorkflowAndRun(workflow, initialCtx), up to the call of runUntilStable
StartWorkflowAndRun(initialCtx) ==
  /\ pc = "created"
  /\ current' = startWorkflow(workflow, initialCtx, clock)
  /\ arg' = current'
  /\ pc' = "stabilizing"
  /\ call' = "startWorkflowAndRun"
  /\ trace' = << >>
  /\ UNCHANGED << workflow, instance, event, transitioned, raised, clock,
                  sends, answer >>

\* runUntilStable(workflow, instance): `let current = instance`
RunUntilStable ==
  /\ pc = "idle"
  /\ current' = instance
  /\ arg' = instance
  /\ pc' = "stabilizing"
  /\ call' = "runUntilStable"
  /\ event' = Undefined
  /\ trace' = << >>
  /\ UNCHANGED << workflow, instance, transitioned, raised, clock, sends,
                  answer >>

\* one iteration of the while loop that applies a transition
StabilizeMove ==
  /\ pc = "stabilizing"
  /\ LET r == StabilizeStep(workflow, current, clock)
     IN /\ r.kind = "moved"
        /\ Len(r.instance.history) <= MaxHistory
        /\ current' = r.instance
        /\ trace' = trace \o CalledBy(r.calls, "runUntilStable")
  /\ UNCHANGED << workflow, pc, instance, call, event, arg, transitioned,
                  raised, clock, sends, answer >>

\* variant of StabilizeReturn in which sendEvent reports transitioned =
\* false when the stabilization ended in an error
StabilizeReturnFailureUntransitioned ==
  /\ pc = "stabilizing"
  /\ LET r == StabilizeStep(workflow, current, clock)
     IN /\ r.kind = "return"
        /\ instance' = r.instance
        /\ trace' = trace \o CalledBy(r.calls, "runUntilStable")
        /\ raised' = r.raised
        /\ transitioned' = IF call = "sendEvent"
                             THEN r.instance.status # "error"
                             ELSE transitioned
  /\ pc' = "idle"
  /\ UNCHANGED << workflow, call, event, arg, current, clock, sends, answer >>

\* the loop ends and runUntilStable (and with it startWorkflowAndRun or
\* sendEvent) returns
StabilizeReturn ==
  /\ pc = "stabilizing"
  /\ LET r == StabilizeStep(workflow, current, clock)
     IN /\ r.kind = "return"
        /\ instance' = r.instance
        /\ trace' = trace \o CalledBy(r.calls, "runUntilStable")
        /\ raised' = r.raised
  /\ transitioned' = IF call = "sendEvent" THEN TRUE ELSE transitioned
  /\ pc' = "idle"
  /\ UNCHANGED << workflow, call, event, arg, current, clock, sends,
                  answer >>

\* sendEvent(workflow, instance, e) applies a transition and goes on to
\* runUntilStable
SendEventApply(e) ==
  /\ pc = "idle"
  /\ LET r == Dispatch(workflow, instance, e, clock)
     IN /\ r.kind = "applied"
        /\ Len(r.instance.history) <= MaxHistory
        /\ current' = r.instance
        /\ trace' = CalledBy(r.calls, "sendEvent")
  /\ arg' = instance
  /\ call' = "sendEvent"
  /\ event' = e
  /\ pc' = "stabilizing"
  /\ UNCHANGED << workflow, instance, transitioned, raised, clock, sends,
                  answer >>

\* sendEvent(workflow, instance, e) returns without having moved
SendEventReturn(e) ==
  /\ pc = "idle"
  /\ LET r == Dispatch(workflow, instance, e, clock)
     IN /\ r.kind = "return"
        /\ instance' = r.instance
        /\ transitioned' = r.transitioned
        /\ raised' = r.raised
        /\ trace' = CalledBy(r.calls, "sendEvent")
  /\ arg' = instance
  /\ call' = "sendEvent"
  /\ event' = e
  /\ current' = NoInstance
  /\ UNCHANGED << workflow, pc, clock, sends, answer >>

\* the caller replaces the context between calls (setContext)
SetContext(ctx) ==
  /\ pc = "idle"
  /\ instance.ctx # ctx
  /\ instance' = [instance EXCEPT !.ctx = ctx]
  /\ call' = "setContext"
  /\ event' = Undefined
  /\ trace' = << >>
  /\ UNCHANGED << workflow, pc, arg, current, transitioned, raised, clock,
                  sends, answer >>

\* time passes
Tick ==
  /\ clock < MaxClock
  /\ clock' = clock + 1
  /\ UNCHANGED << workflow, pc, instance, call, event, arg, current,
                  transitioned, raised, trace, sends, answer >>

Next ==
  \/ \E config \in Configs : CreateWorkflow(config)
  \/ \E ctx \in Contexts : StartWorkflow(ctx)
  \/ \E ctx \in Contexts : StartWorkflowAndRun(ctx)
  \/ RunUntilStable
  \/ StabilizeMove
  \/ StabilizeReturn
  \/ \E e \in Events : SendEventApply(e)
  \/ \E e \in Events : SendEventReturn(e)
  \/ \E ctx \in Contexts : SetContext(ctx)
  \/ Tick

Spec == Init /\ [][Next]_vars

\* ------------------------------------------------------ the React provider
\* WorkflowProvider holds one instance as React state (`instance`, NoInstance
\* while it is null) and hands out send, can and setContext.  An engine call
\* made by the provider is taken as a whole: its guards and hooks see the
\* context of the instance the call was given.

\* runUntilStable as a whole; done is false when the loop has not returned
\* within MaxCascade iterations
RECURSIVE runUntilStable(_, _, _, _)
runUntilStable(definition, inst, now, fuel) ==
  LET r == StabilizeStep(definition, inst, now) IN
  IF r.kind = "return" THEN [done |-> TRUE, instance |-> r.instance]
  ELSE IF fuel = 0 THEN [done |-> FALSE, instance |-> r.instance]
  ELSE runUntilStable(definition, r.instance, now, fuel - 1)

\* startWorkflowAndRun as a whole
startWorkflowAndRun(definition, initialCtx, now) ==
  runUntilStable(definition, startWorkflow(definition, initialCtx, now), now,
                 MaxCascade)

\* sendEvent as a whole: the TransitionResult, if the call returns
sendEvent(definition, inst, ev, now) ==
  LET r == Dispatch(definition, inst, ev, now) IN
  IF r.kind = "return"
    THEN [done |-> TRUE, instance |-> r.instance, transitioned |-> r.transitioned]
  ELSE LET s == runUntilStable(definition, r.instance, now, MaxCascade)
       IN [done |-> s.done, instance |-> s.instance, transitioned |-> TRUE]

\* `for (const t of state.transitions)` in can: a transition is passed over
\* only if it has a (truthy) event other than the one asked about
RECURSIVE canTransitions(_, _, _, _)
canTransitions(transitions, from, ev, ctx) ==
  IF from > Len(transitions) THEN [ok |-> TRUE, value |-> FALSE, err |-> NoError]
  ELSE
    LET t == transitions[from] IN
    IF ~Falsy(t.event) /\ t.event # ev
      THEN canTransitions(transitions, from + 1, ev, ctx)
    ELSE
      LET g == GuardPass(t, ctx) IN
      IF ~g.ok THEN [ok |-> FALSE, value |-> FALSE, err |-> g.err]
      ELSE IF g.value THEN [ok |-> TRUE, value |-> TRUE, err |-> NoError]
      ELSE canTransitions(transitions, from + 1, ev, ctx)

\* can(event) of the provider: what the promise resolves to (ok), or the
\* value it rejects with
can(definition, inst, ev) ==
  IF inst = NoInstance THEN [ok |-> TRUE, value |-> FALSE, err |-> NoError]
  ELSE IF ~HasState(definition, inst.currentState)
    THEN [ok |-> TRUE, value |-> FALSE, err |-> NoError]
  ELSE IF Len(definition.states[inst.currentState].transitions) = 0
    THEN [ok |-> TRUE, value |-> FALSE, err |-> NoError]
  ELSE canTransitions(definition.states[inst.currentState].transitions, 1, ev,
                      inst.ctx)

\* the provider's effect: startWorkflowAndRun, then setInstance(started)
Mount(initialCtx) ==
  /\ pc = "created"
  /\ LET started == startWorkflowAndRun(workflow, initialCtx, clock)
     IN /\ started.done
        /\ instance' = started.instance
  /\ pc' = "idle"
  /\ UNCHANGED << workflow, call, event, arg, current, transitioned, raised,
                  trace, clock, sends, answer >>

\* send(e) up to its await: the instance of the current render is captured
\* and handed to sendEvent
Send(e) ==
  /\ pc = "idle"
  /\ Len(sends) < MaxSends
  /\ sends' = Append(sends, [event |-> e, snapshot |-> instance,
                             fromState |-> instance.currentState])
  /\ UNCHANGED << workflow, pc, instance, call, event, arg, current,
                  transitioned, raised, trace, clock, answer >>

\* the sendEvent call of an unresolved send returns: setInstance(result.instance)
SendResolve(i) ==
  /\ pc = "idle"
  /\ i \in 1..Len(sends)
  /\ LET result == sendEvent(workflow, sends[i].snapshot, sends[i].event, clock)
     IN /\ result.done
        /\ Len(result.instance.history) <= MaxHistory
        /\ instance' = result.instance
  /\ sends' = [k \in 1..(Len(sends) - 1) |-> IF k < i THEN sends[k] ELSE sends[k + 1]]
  /\ UNCHANGED << workflow, pc, call, event, arg, current, transitioned,
                  raised, trace, clock, answer >>

\* can(e): nothing but the answer is produced
Can(e) ==
  /\ pc = "idle"
  /\ answer' = [event |-> e, result |-> can(workflow, instance, e)]
  /\ UNCHANGED << workflow, pc, instance, call, event, arg, current,
                  transitioned, raised, trace, clock, sends >>

\* the updaters handed to updateContext: functions that mutate the copy of
\* the context they are given
Updaters == { "setReady", "clearReady" }

\* updateContext(updater): setInstance(prev => ({...prev, ctx: newCtx}))
\* with newCtx a copy of prev.ctx that the updater has mutated
UpdateContext(updater) ==
  /\ pc = "idle"
  /\ instance' = [instance EXCEPT !.ctx = RunAction(updater, instance.ctx).ctx]
  /\ call' = "updateContext"
  /\ UNCHANGED << workflow, pc, event, arg, current, transitioned, raised,
                  trace, clock, sends, answer >>

ProviderNext ==
  \/ \E config \in Configs : CreateWorkflow(config)
  \/ \E ctx \in Contexts : Mount(ctx)
  \/ \E e \in Events : Send(e)
  \/ \E i \in 1..MaxSends : SendResolve(i)
  \/ \E e \in Events : Can(e)
  \/ \E ctx \in Contexts : SetContext(ctx)
  \/ \E updater \in Updaters : UpdateContext(updater)

ProviderSpec == Init /\ [][ProviderNext]_vars

\* ------------------------------------------------------------- properties
Finished == { "completed", "error" }

Last(seq) == seq[Len(seq)]

\* the fields of an instance that only the engine writes
SameProgress(a, b) ==
  /\ a.currentState = b.currentState
  /\ a.history = b.history
  /\ a.status = b.status
  /\ a.error = b.error

\* the last call was sendEvent or runUntilStable on a finished instance
C1_State ==
  (call \in {"sendEvent", "runUntilStable"} /\ arg.status \in Finished) =>
    /\ trace = << >>
    /\ call = "sendEvent" => (pc = "idle" /\ ~transitioned)
    /\ pc = "idle" => instance = arg
    /\ pc = "stabilizing" => current = arg

C1_Step ==
  (pc \in {"idle", "stabilizing"} /\ instance.status \in Finished) =>
    SameProgress(instance, instance')

\* C1: sendEvent on an instance that is completed or in error returns the
\* very same instance with transitioned = false, runUntilStable returns the
\* same instance, neither invokes a guard or a hook, and over any sequence
\* of calls currentState, history, status and error of such an instance
\* never change.
C1_FinishedInstanceIsInert == [](C1_State) /\ [][C1_Step]_vars

\* a sendEvent on an errored instance whose state has a candidate for the event
C1_Witness ==
  /\ pc = "idle" /\ call = "sendEvent" /\ event = "GO"
  /\ workflow = Faulty /\ arg.status = "error" /\ arg.currentState = "A"
  /\ instance = arg

\* the instance a step starts from
Before == IF pc = "stabilizing" THEN current ELSE instance

\* a step that applies a transition successfully
AppliedStep == (\E e \in Events : SendEventApply(e)) \/ StabilizeMove

HistoryAppended(old, new) ==
  LET n == Len(old.history) IN
  /\ Len(new.history) = n + 1
  /\ new.history[n].leftAt # NoTime
  /\ new.history[n] = [old.history[n] EXCEPT !.leftAt = new.history[n].leftAt]
  /\ new.history[n + 1].leftAt = NoTime
  /\ new.history[n + 1].stateId = new.currentState
  /\ \A i \in 1..(n - 1) : new.history[i] = old.history[i]

\* C2: a successfully applied transition (in sendEvent or in one iteration
\* of runUntilStable) makes the history exactly one entry longer, stamps
\* leftAt on the previously last entry, appends an open entry for the
\* target state, and leaves all earlier entries as they were.
C2_HistoryAppend == [][AppliedStep => HistoryAppended(Before, current')]_vars

\* a cascade has applied a third transition, with hooks
C2_Witness ==
  /\ pc = "stabilizing" /\ call = "sendEvent"
  /\ Len(current.history) >= Len(arg.history) + 2
  /\ Len(arg.history) >= 2
  /\ trace # << >>

OpenEntryIsCurrent(inst) ==
  \A i \in 1..Len(inst.history) :
    inst.history[i].leftAt = NoTime =>
      /\ i = Len(inst.history)
      /\ inst.status = "running" => inst.history[i].stateId = inst.currentState

\* C3: in every instance reachable from startWorkflow by sendEvent and
\* runUntilStable, an entry without leftAt is the last entry of the
\* history (so there is at most one), and while status is running its
\* stateId is currentState.
C3_OneOpenEntry ==
  /\ OpenEntryIsCurrent(instance)
  /\ OpenEntryIsCurrent(current)
  /\ OpenEntryIsCurrent(arg)

\* a running instance whose state's id differs from its key, after moves
C3_Witness ==
  /\ pc = "idle" /\ instance.status = "running"
  /\ Len(instance.history) >= 3
  /\ Last(instance.history).leftAt = NoTime
  /\ instance.history[1].leftAt # NoTime

\* the instance that the last transition attempted by the call started from
Pre == IF current = NoInstance THEN arg ELSE current

\* the call has returned and the last thing it invoked was an onEnter that threw
OnEnterFailed ==
  /\ pc = "idle"
  /\ call \in {"sendEvent", "runUntilStable", "startWorkflowAndRun"}
  /\ trace # << >>
  /\ Last(trace).hook = "onEnter"
  /\ Last(trace).err # NoError

DispatchTrace == SelectSeq(trace, LAMBDA c : c.by = "sendEvent")

\* the last call is a sendEvent that got as far as looking at transitions
Dispatching ==
  /\ call = "sendEvent"
  /\ arg.status = "running"
  /\ HasState(workflow, arg.currentState)

ArgTransitions == workflow.states[arg.currentState].transitions

Matching == { i \in 1..Len(ArgTransitions) : ArgTransitions[i].event = event }

Passes(i) ==
  \/ ArgTransitions[i].guard = Undefined
  \/ /\ EvalGuard(ArgTransitions[i].guard, arg.ctx).ok
     /\ EvalGuard(ArgTransitions[i].guard, arg.ctx).value

GuardThrows(i) ==
  /\ ArgTransitions[i].guard # Undefined
  /\ ~EvalGuard(ArgTransitions[i].guard, arg.ctx).ok

\* the candidates at which the loop over the candidates cannot continue
Deciders == { i \in Matching : Passes(i) \/ GuardThrows(i) }

FirstDecider == CHOOSE i \in Deciders : \A j \in Deciders : i <= j

\* sendEvent has applied its transition (and gone on to runUntilStable)
Applied == call = "sendEvent" /\ current # NoInstance

\* the history entry sendEvent's transition appended
EventEntry ==
  (IF pc = "stabilizing" THEN current.history ELSE instance.history)[Len(arg.history) + 1]

\* C5: the transition sendEvent applies is the first candidate (event
\* equal to the dispatched one, in definition order) whose guard is absent
\* or true; no action of another candidate is invoked and no guard of a
\* later candidate is evaluated.
C5_FirstMatchWins ==
  Dispatching =>
    /\ Applied =>
         /\ Deciders # {}
         /\ Passes(FirstDecider)
         /\ EventEntry.transitionId = ArgTransitions[FirstDecider].id
         /\ EventEntry.stateId = workflow.states[ArgTransitions[FirstDecider].target].id
         /\ EventEntry.event = event
    /\ \A k \in 1..Len(DispatchTrace) :
         LET c == DispatchTrace[k] IN
         /\ c.hook = "action" =>
              (Deciders # {} /\ c.idx = FirstDecider /\ Passes(FirstDecider))
         /\ c.hook = "guard" =>
              (c.idx \in Matching /\ (Deciders # {} => c.idx <= FirstDecider))

\* the first candidate's guard returned false, the second was applied and
\* a third candidate was left alone
C5_Witness ==
  /\ workflow = FirstMatch /\ Applied /\ event = "GO"
  /\ arg.currentState = "A" /\ ~arg.ctx.ready
  /\ EventEntry.transitionId = "t2"
  /\ DispatchTrace[1].hook = "guard" /\ DispatchTrace[1].idx = 1
  /\ DispatchTrace[2].hook = "action" /\ DispatchTrace[2].idx = 2

\* ---- start
Placed(inst) ==
  /\ inst.currentState = workflow.initialState
  /\ Len(inst.history) = 1
  /\ inst.history[1].stateId = workflow.initialState
  /\ inst.history[1].leftAt = NoTime

InitialOnEnterNotInvoked ==
  \A k \in 1..Len(trace) :
    ~(trace[k].hook = "onEnter" /\ trace[k].state = workflow.initialState)

InitialType == workflow.states[workflow.initialState].type

\* C7 as stated: starting an instance whose initial state is an end state
\* yields status completed, and running for every other initial state.
C7_EndStartCompletes ==
  (call = "startWorkflow" /\ pc = "idle") =>
    instance.status = IF InitialType = "end" THEN "completed" ELSE "running"

\* C7, amended: startWorkflow yields status running for every definition,
\* also when the initial state is an end state; startWorkflowAndRun
\* returns that running instance as it is whenever the initial state is
\* not an auto state.
C7_StartIsRunning ==
  /\ (call = "startWorkflow" /\ pc = "idle") => instance.status = "running"
  /\ call = "startWorkflowAndRun" =>
       /\ arg.status = "running"
       /\ (pc = "idle" /\ InitialType # "auto") => instance = arg

\* started and run at an end state, still running
C7_Witness ==
  /\ call = "startWorkflowAndRun" /\ pc = "idle"
  /\ InitialType = "end"
  /\ instance.status = "running"

\* ---- failures in sendEvent
FirstTarget == ArgTransitions[FirstDecider].target

\* the guard of the candidate in turn throws, or the selected transition
\* cannot be applied: its target is missing or one of its hooks throws
DispatchFails ==
  /\ Dispatching
  /\ Deciders # {}
  /\ \/ GuardThrows(FirstDecider)
     \/ /\ Passes(FirstDecider)
        /\ \/ ~HasState(workflow, FirstTarget)
           \/ /\ DispatchTrace # << >>
              /\ Last(DispatchTrace).hook # "guard"
              /\ Last(DispatchTrace).err # NoError

DispatchThrown ==
  IF GuardThrows(FirstDecider)
    THEN EvalGuard(ArgTransitions[FirstDecider].guard, arg.ctx).err
  ELSE IF ~HasState(workflow, FirstTarget) THEN TargetNotFound(FirstTarget)
  ELSE Last(DispatchTrace).err

\* C8: if in sendEvent the guard of a matching candidate throws, or the
\* selected transition fails to apply (missing target, or onExit, action
\* or onEnter throws), the result has transitioned = false, status error,
\* error equal to the thrown value and currentState the state the dispatch
\* started from, and no further candidate is tried.
C8_DispatchFailure ==
  DispatchFails =>
    /\ pc = "idle"
    /\ ~transitioned
    /\ ~Applied
    /\ instance.status = "error"
    /\ instance.error = DispatchThrown
    /\ instance.currentState = arg.currentState
    /\ \A k \in 1..Len(DispatchTrace) :
         DispatchTrace[k].hook \in {"guard", "action"} =>
           DispatchTrace[k].idx <= FirstDecider

\* the first candidate's guard threw while the second would have passed
C8_Witness ==
  /\ DispatchFails /\ GuardThrows(FirstDecider)
  /\ \E j \in Matching : j > FirstDecider /\ Passes(j)
  /\ instance.error = "G"
  /\ Len(trace) = 1

\* C9: sendEvent and runUntilStable (and startWorkflowAndRun) never throw,
\* whatever the guards and hooks do and also when a target is missing:
\* they return an instance, and a failure shows only as status error with
\* the error field set.
C9_NeverRaises ==
  call \in {"sendEvent", "runUntilStable", "startWorkflowAndRun"} =>
    /\ ~raised
    /\ pc = "idle" =>
         /\ instance.status \in {"running", "completed", "error"}
         /\ (instance.status = "error") = (instance.error # NoError)
         /\ (\E k \in 1..Len(trace) : trace[k].err # NoError) =>
              instance.status = "error"
         /\ (DispatchFails /\ ~HasState(workflow, FirstTarget)) =>
              instance.status = "error"

\* runUntilStable, called by sendEvent, met a dangling target and sendEvent
\* returned an errored instance
C9_Witness ==
  /\ pc = "idle" /\ Applied /\ ~raised
  /\ arg.status = "running"
  /\ instance.status = "error"
  /\ instance.error = TargetNotFound("Z")

\* ---- stabilization after a dispatch
PassesOn(t, ctx) ==
  \/ t.guard = Undefined
  \/ (EvalGuard(t.guard, ctx).ok /\ EvalGuard(t.guard, ctx).value)

Stable(inst) ==
  \/ inst.status # "running"
  \/ /\ HasState(workflow, inst.currentState)
     /\ LET state == workflow.states[inst.currentState] IN
        \/ state.type # "auto"
        \/ \A i \in 1..Len(state.transitions) :
             Falsy(state.transitions[i].event) =>
               ~PassesOn(state.transitions[i], inst.ctx)

\* C10: when sendEvent has applied its transition it returns
\* transitioned = true and a stabilized instance: not running, or not in
\* an auto state, or in an auto state none of whose event-less transitions
\* has a guard that is absent or true on the final context.
C10_DispatchStabilizes ==
  (pc = "idle" /\ Applied) => (transitioned /\ Stable(instance))

\* one event carried the instance through two auto states to an end state
C10_Witness ==
  /\ pc = "idle" /\ Applied /\ transitioned
  /\ Len(instance.history) = Len(arg.history) + 3
  /\ instance.status = "completed"

\* ---- runUntilStable on an instance that cannot move
\* an auto state none of whose event-less transitions has a guard that is
\* absent or true; every such guard returns false
Stuck(inst) ==
  /\ inst.status = "running"
  /\ HasState(workflow, inst.currentState)
  /\ LET state == workflow.states[inst.currentState] IN
     /\ state.type = "auto"
     /\ \A i \in 1..Len(state.transitions) :
          Falsy(state.transitions[i].event) =>
            /\ state.transitions[i].guard # Undefined
            /\ EvalGuard(state.transitions[i].guard, inst.ctx).ok
            /\ ~EvalGuard(state.transitions[i].guard, inst.ctx).value

OnlyGuardsReturned(calls) ==
  \A k \in 1..Len(calls) : calls[k].hook = "guard" /\ calls[k].err = NoError

\* C11: runUntilStable (also as the second half of startWorkflowAndRun) on
\* a running instance in an auto state that has no event-less transition,
\* or whose event-less transitions all have guards returning false, returns
\* the instance unchanged with status running: same currentState, same
\* history, no error, and no onExit, action or onEnter invoked.
C11_StuckAutoStateIsNotAnError ==
  (call \in {"runUntilStable", "startWorkflowAndRun"} /\ Stuck(arg)) =>
    /\ ~raised
    /\ OnlyGuardsReturned(trace)
    /\ pc = "stabilizing" => current = arg
    /\ pc = "idle" => (instance = arg /\ instance.status = "running"
                        /\ instance.error = NoError)

\* runUntilStable returned from an auto state whose only event-less
\* transition has a guard, which it evaluated and found false
C11_Witness ==
  /\ pc = "idle" /\ call = "runUntilStable"
  /\ Stuck(arg) /\ instance = arg
  /\ Len(trace) = 1 /\ trace[1].hook = "guard"
  /\ Len(instance.history) >= 2

\* ---- a guard that throws during stabilization
\* positions in the trace of guards that runUntilStable called and that threw
StabilizeGuardThrows ==
  { k \in 1..Len(trace) :
      /\ trace[k].by = "runUntilStable"
      /\ trace[k].hook = "guard"
      /\ trace[k].err # NoError }

\* C12: when a guard throws during runUntilStable at auto state X, the call
\* returns at once: status error, error the thrown value, currentState X,
\* history that of the instance the iteration started from; the throwing
\* guard is the last thing invoked, so no onExit, action or onEnter of that
\* transition runs and no later candidate's guard is evaluated.
C12_GuardThrowEndsStabilization ==
  \A k \in StabilizeGuardThrows :
    /\ pc = "idle"
    /\ k = Len(trace)
    /\ instance.status = "error"
    /\ instance.error = trace[k].err
    /\ instance.currentState = trace[k].state
    /\ workflow.states[trace[k].state].type = "auto"
    /\ instance.currentState = current.currentState
    /\ instance.history = current.history

\* the first event-less candidate's guard threw, in a cascade started by a
\* dispatch, while the next candidate has no guard at all
C12_Witness ==
  /\ pc = "idle" /\ call = "sendEvent" /\ current # NoInstance
  /\ StabilizeGuardThrows # {}
  /\ instance.status = "error" /\ instance.error = "G"
  /\ LET ts == workflow.states[instance.currentState].transitions
     IN \E j \in 1..Len(ts) :
          /\ j > Last(trace).idx
          /\ Falsy(ts[j].event)
          /\ ts[j].guard = Undefined

\* ---- a dispatch that finds nothing to apply
\* no transition of the state the dispatch started from has the dispatched
\* event and a guard that is absent, true or throwing
NothingToApply == Dispatching /\ Deciders = {}

\* C13: sendEvent runs stabilization only after it has applied an event
\* transition: when no transition matches the event with a passing guard
\* it returns the instance unchanged with transitioned = false and never
\* enters runUntilStable, also when the instance rests in an auto state
\* one of whose event-less transitions has a guard that now passes.
C13_NoStabilizationWithoutDispatch ==
  NothingToApply =>
    /\ pc = "idle"
    /\ ~Applied
    /\ ~transitioned
    /\ ~raised
    /\ instance = arg
    /\ \A k \in 1..Len(trace) :
         trace[k].hook = "guard" /\ trace[k].by = "sendEvent"

\* the context was replaced while the instance rested in an auto state, so
\* that the guard of its event-less transition passes; an event without a
\* candidate was dispatched and the instance is still there
C13_Witness ==
  /\ NothingToApply /\ pc = "idle"
  /\ instance = arg /\ instance.status = "running"
  /\ workflow.states[instance.currentState].type = "auto"
  /\ ~Stable(instance)
  /\ Len(instance.history) >= 2

\* ---- which function applies which transition
\* the transitions of the state `src` is in that the appended history entry
\* can stand for
AppliedIndexes(src, entry) ==
  LET ts == workflow.states[src.currentState].transitions IN
  { i \in 1..Len(ts) :
      /\ ts[i].id = entry.transitionId
      /\ HasState(workflow, ts[i].target)
      /\ workflow.states[ts[i].target].id = entry.stateId }

\* the first event-less transition of the state `inst` is in whose guard is
\* absent or true (0 if there is none)
FirstPassingAuto(inst) ==
  LET ts == workflow.states[inst.currentState].transitions
      P == { i \in 1..Len(ts) : Falsy(ts[i].event) /\ PassesOn(ts[i], inst.ctx) }
  IN IF P = {} THEN 0 ELSE CHOOSE i \in P : \A j \in P : i <= j

AppliedByDispatch ==
  (\E e \in Events : SendEventApply(e)) =>
    LET ts == workflow.states[instance.currentState].transitions
        applied == AppliedIndexes(instance, Last(current'.history))
    IN /\ applied # {}
       /\ \A i \in applied : ~Falsy(ts[i].event)

AppliedByStabilization ==
  StabilizeMove =>
    LET ts == workflow.states[current.currentState].transitions
        applied == AppliedIndexes(current, Last(current'.history))
    IN /\ workflow.states[current.currentState].type = "auto"
       /\ applied # {}
       /\ \A i \in applied : Falsy(ts[i].event) /\ i = FirstPassingAuto(current)

\* C16: a transition without an event is never applied by sendEvent,
\* whatever event is dispatched; runUntilStable applies only transitions
\* without an event, only from auto states, and of these the first in
\* definition order whose guard is absent or true.  A transition counts as
\* being without an event as in the stabilizer's own filter (`!t.event`).
C16_EventDecidesWhoApplies ==
  [][AppliedByDispatch /\ AppliedByStabilization]_vars

\* ---- order of the hooks
Shape(c) == << c.hook, c.state, c.idx >>

\* the guard and hooks that transition i of state `key` has, in the order
\* guard, onExit of the source, action, onEnter of the target
HooksOf(key, i) ==
  LET state == workflow.states[key]
      t == state.transitions[i]
      target == workflow.states[t.target]
  IN (IF t.guard # Undefined THEN << << "guard", key, i >> >> ELSE << >>)
     \o (IF state.onExit # Undefined THEN << << "onExit", key, 0 >> >> ELSE << >>)
     \o (IF t.action # Undefined THEN << << "action", key, i >> >> ELSE << >>)
     \o (IF target.onEnter # Undefined
           THEN << << "onEnter", t.target, 0 >> >> ELSE << >>)

\* the calls `made` while one transition was selected and applied from
\* `src`: guards of earlier candidates that returned false, then the guard
\* and hooks of the applied transition, each returned before the next
InOrder(src, made, entry) ==
  /\ AppliedIndexes(src, entry) # {}
  /\ \A i \in AppliedIndexes(src, entry) :
    LET hooks == HooksOf(src.currentState, i)
        n == Len(made) - Len(hooks)
    IN /\ n >= 0
       /\ \A k \in 1..Len(made) : made[k].err = NoError
       /\ \A k \in 1..Len(hooks) : Shape(made[n + k]) = hooks[k]
       /\ \A k \in 1..n : made[k].hook = "guard" /\ made[k].idx < i

HookOrderStep ==
  /\ (\E e \in Events : SendEventApply(e)) =>
       InOrder(instance, trace', Last(current'.history))
  /\ StabilizeMove =>
       /\ Len(trace') >= Len(trace)
       /\ SubSeq(trace', 1, Len(trace)) = trace
       /\ InOrder(current, SubSeq(trace', Len(trace) + 1, Len(trace')),
                  Last(current'.history))

\* C17: for one applied transition the calls are made in the order guard,
\* onExit of the source state, action, onEnter of the target state, each
\* after the one before has returned; in a cascade all calls of one
\* transition come before the guard of the next transition.
C17_HookOrder == [][HookOrderStep]_vars

\* a cascade whose second transition ran a guard, an onExit, an action and
\* an onEnter after the hooks of the first
C17_Witness ==
  /\ call = "sendEvent" /\ current # NoInstance
  /\ Len(current.history) = Len(arg.history) + 2
  /\ Len(trace) >= 6
  /\ LET n == Len(trace) IN
     /\ trace[n - 3].hook = "guard" /\ trace[n - 3].by = "runUntilStable"
     /\ trace[n - 2].hook = "onExit"
     /\ trace[n - 1].hook = "action"
     /\ trace[n].hook = "onEnter"
     /\ trace[1].by = "sendEvent"

\* ---- a selected transition whose target is not a state
\* sendEvent selects a transition whose target is missing
DanglingDispatch ==
  /\ Dispatching
  /\ Deciders # {}
  /\ Passes(FirstDecider)
  /\ ~HasState(workflow, FirstTarget)

\* the event-less transitions of the state `inst` is in at which the loop
\* over the candidates cannot continue: the guard is absent, true or throws
AutoDeciders(inst) ==
  LET ts == workflow.states[inst.currentState].transitions IN
  { i \in 1..Len(ts) :
      /\ Falsy(ts[i].event)
      /\ \/ PassesOn(ts[i], inst.ctx)
         \/ ~EvalGuard(ts[i].guard, inst.ctx).ok }

\* an iteration of runUntilStable from `inst` selects a transition whose
\* target is missing
DanglingAuto(inst) ==
  /\ inst.status = "running"
  /\ HasState(workflow, inst.currentState)
  /\ workflow.states[inst.currentState].type = "auto"
  /\ AutoDeciders(inst) # {}
  /\ LET ts == workflow.states[inst.currentState].transitions
         i == CHOOSE i \in AutoDeciders(inst) : \A j \in AutoDeciders(inst) : i <= j
     IN PassesOn(ts[i], inst.ctx) /\ ~HasState(workflow, ts[i].target)

FailedBeforeAnyHook(before, after, made) ==
  /\ after.status = "error"
  /\ after.error = "target not found"
  /\ after.currentState = before.currentState
  /\ after.history = before.history
  /\ after.ctx = before.ctx
  /\ \A k \in 1..Len(made) : made[k].hook = "guard" /\ made[k].err = NoError

C18_Dispatch ==
  DanglingDispatch =>
    /\ pc = "idle"
    /\ ~transitioned
    /\ ~Applied
    /\ FailedBeforeAnyHook(arg, instance, trace)

C18_Stabilization ==
  ((StabilizeMove \/ StabilizeReturn) /\ DanglingAuto(current)) =>
    /\ pc' = "idle"
    /\ Len(trace') >= Len(trace)
    /\ FailedBeforeAnyHook(current, instance',
                           SubSeq(trace', Len(trace) + 1, Len(trace')))

\* C18: when the transition selected by sendEvent or by an iteration of
\* runUntilStable has a target that is not a state of the definition, it
\* fails before any hook: neither onExit nor the action (nor onEnter) is
\* invoked, history, currentState and context stay as they were, and the
\* operation ends with status error, for sendEvent with transitioned = false.
C18_MissingTargetFailsBeforeHooks == [](C18_Dispatch) /\ [][C18_Stabilization]_vars

\* sendEvent selected a transition to a missing state from a state that
\* has an onExit, after the guard of an earlier candidate returned false
C18_Witness ==
  /\ DanglingDispatch /\ pc = "idle"
  /\ workflow.states[arg.currentState].onExit # Undefined
  /\ ArgTransitions[FirstDecider].action # Undefined
  /\ instance.status = "error"
  /\ Len(trace) >= 2

\* an iteration of runUntilStable selected a transition to a missing state
C18_WitnessAuto ==
  /\ pc = "idle" /\ DanglingAuto(current)
  /\ instance.status = "error" /\ instance.error = "target not found"
  /\ instance.history = current.history

\* ---- status after a transition
\* the states a transition of the state `src` is in leads to, for the
\* transition with the id that the appended history entry records
TargetsOf(src, entry) ==
  LET ts == workflow.states[src.currentState].transitions IN
  { workflow.states[ts[i].target] :
      i \in { j \in 1..Len(ts) : /\ ts[j].id = entry.transitionId
                                 /\ HasState(workflow, ts[j].target) } }

StatusFollowsTarget ==
  AppliedStep =>
    /\ TargetsOf(Before, Last(current'.history)) # {}
    /\ \A target \in TargetsOf(Before, Last(current'.history)) :
         /\ current'.currentState = target.id
         /\ current'.status = IF target.type = "end" THEN "completed" ELSE "running"
         /\ current'.error = NoError

\* the state an instance is in is a terminal state of the definition
AtEndState(inst) ==
  \E key \in DOMAIN workflow.states :
    /\ workflow.states[key].id = inst.currentState
    /\ workflow.states[key].type = "end"

CompletedIsAtEnd ==
  /\ (pc = "idle" /\ instance.status = "completed") => AtEndState(instance)
  /\ (current # NoInstance /\ current.status = "completed") => AtEndState(current)
  /\ (arg # NoInstance /\ arg.status = "completed") => AtEndState(arg)

\* C19: after every successfully applied transition currentState is the
\* target state and status is completed if the target state's type is end
\* and running otherwise; hence in every reachable instance status =
\* completed implies that the current state is an end state.
C19_StatusFollowsTarget == [](CompletedIsAtEnd) /\ [][StatusFollowsTarget]_vars

\* a cascade passed through a state that is not an end state (status
\* running on the way) and completed the instance at an end state
C19_Witness ==
  /\ pc = "idle" /\ instance.status = "completed"
  /\ AtEndState(instance)
  /\ Len(instance.history) >= 3
  /\ workflow.states[instance.history[Len(instance.history) - 1].stateId].type = "auto"

\* ---- termination of runUntilStable
\* The loop of runUntilStable goes on to its next iteration, or returns,
\* once the guards and hooks it awaits have returned or thrown.
FairSpec == Spec /\ WF_vars(StabilizeMove) /\ WF_vars(StabilizeReturn)

\* the states in which an iteration of runUntilStable from state `key` can
\* leave the instance: the targets of key's event-less transitions, if key
\* is an auto state
AutoSucc(key) ==
  LET state == workflow.states[key] IN
  IF state.type # "auto" THEN {}
  ELSE { workflow.states[state.transitions[i].target].id :
           i \in { j \in 1..Len(state.transitions) :
                     /\ Falsy(state.transitions[j].event)
                     /\ HasState(workflow, state.transitions[j].target) } }
       \cap DOMAIN workflow.states

RECURSIVE AutoClosure(_, _)
AutoClosure(keys, n) ==
  IF n = 0 THEN keys
  ELSE AutoClosure(keys \cup UNION { AutoSucc(k) : k \in keys }, n - 1)

\* no cycle of auto states connected by event-less transitions
AutoAcyclic ==
  \A key \in DOMAIN workflow.states :
    key \notin AutoClosure(AutoSucc(key), Cardinality(DOMAIN workflow.states))

\* the number of transitions of the longest cascade from state `key`
RECURSIVE AutoDepth(_, _)
AutoDepth(key, fuel) ==
  IF fuel = 0 \/ AutoSucc(key) = {} THEN 0
  ELSE LET below == { AutoDepth(k, fuel - 1) : k \in AutoSucc(key) }
       IN 1 + CHOOSE d \in below : \A e \in below : e <= d

\* the history bound leaves room for the longest cascade from where
\* `inst` is
Room(inst) ==
  HasState(workflow, inst.currentState) =>
    Len(inst.history)
      + AutoDepth(inst.currentState, Cardinality(DOMAIN workflow.states))
      <= MaxHistory

StopsExactlyWhenStable ==
  /\ StabilizeMove => ~Stable(current)
  /\ StabilizeReturn =>
       /\ Stable(instance')
       /\ ~Stable(current) => instance'.status = "error"

\* C20: on a definition without a cycle of auto states connected by
\* event-less transitions runUntilStable terminates (guards and hooks
\* returning or throwing), and it stops exactly when the status is no longer
\* running, or the current state is not an auto state, or no event-less
\* candidate's guard passes; short of that it stops only with status error.
C20_StabilizationTerminates ==
  /\ (pc = "stabilizing" /\ AutoAcyclic /\ Room(current)) ~> (pc = "idle")
  /\ [][StopsExactlyWhenStable]_vars

\* runUntilStable, called on an instance resting in an auto state of a
\* definition without such a cycle, applied a transition and returned
C20_Witness ==
  /\ pc = "idle" /\ call = "runUntilStable"
  /\ AutoAcyclic
  /\ workflow.states[arg.currentState].type = "auto"
  /\ Len(instance.history) > Len(arg.history)
  /\ Stable(instance)

\* ---- the provider's can and send
\* sendEvent(ev) on `inst` would find a transition whose event is ev and
\* whose guard passes: the instance is running and the first candidate at
\* which the dispatcher's loop cannot continue has a guard that is absent
\* or true
DispatchFinds(inst, ev) ==
  /\ inst.status = "running"
  /\ HasState(workflow, inst.currentState)
  /\ LET ts == workflow.states[inst.currentState].transitions
         D == { i \in 1..Len(ts) :
                  /\ ts[i].event = ev
                  /\ \/ PassesOn(ts[i], inst.ctx)
                     \/ ~EvalGuard(ts[i].guard, inst.ctx).ok }
     IN /\ D # {}
        /\ PassesOn(ts[CHOOSE i \in D : \A j \in D : i <= j], inst.ctx)

\* C14: can(event) of the provider resolves to true exactly when sendEvent
\* with that event on the same instance would find a transition whose event
\* matches and whose guard passes, and evaluating it leaves the instance as
\* it is.
C14_CanMirrorsDispatch ==
  [][\A e \in Events :
       Can(e) => /\ (answer'.result.ok /\ answer'.result.value)
                      = DispatchFinds(instance, e)
                 /\ instance' = instance]_vars

\* C15: no two send calls of the provider are in flight with the same
\* instance snapshot: a second dispatch on a snapshot is not started before
\* the first one on it has resolved.
C15_SendsSerialized ==
  \A i, j \in 1..Len(sends) :
    i # j => sends[i].snapshot # sends[j].snapshot

\* ---- a cycle of auto states
\* hook h returns on ctx and leaves it as it is
Harmless(h, ctx) ==
  h = Undefined \/ (RunAction(h, ctx).ok /\ RunAction(h, ctx).ctx = ctx)

\* from auto state `key` with context ctx an iteration of runUntilStable
\* applies a transition without a failure and without a change of the
\* context, and the state it leads to is in `keys`
MovesWithin(key, keys, ctx) ==
  LET state == workflow.states[key]
      ts == state.transitions
      first == FirstPassingAuto([currentState |-> key, ctx |-> ctx])
  IN /\ state.type = "auto"
     /\ first # 0
     /\ \A i \in 1..(first - 1) :
          Falsy(ts[i].event) => EvalGuard(ts[i].guard, ctx).ok
     /\ HasState(workflow, ts[first].target)
     /\ workflow.states[ts[first].target].id \in keys
     /\ Harmless(state.onExit, ctx)
     /\ Harmless(ts[first].action, ctx)
     /\ Harmless(workflow.states[ts[first].target].onEnter, ctx)

RECURSIVE CycleStates(_, _, _)
CycleStates(keys, ctx, n) ==
  IF n = 0 THEN keys
  ELSE CycleStates({ k \in keys : MovesWithin(k, keys, ctx) }, ctx, n - 1)

\* the instance is in a cycle of auto states whose event-less transitions
\* have guards that are absent or true and whose hooks do not fail
Looping(inst) ==
  /\ inst.status = "running"
  /\ inst.currentState \in
       CycleStates(DOMAIN workflow.states, inst.ctx,
                   Cardinality(DOMAIN workflow.states))

LoopGoesOn ==
  (pc = "stabilizing" /\ Looping(current)) =>
    LET r == StabilizeStep(workflow, current, clock) IN
    /\ r.kind = "moved"
    /\ Len(r.instance.history) = Len(current.history) + 1
    /\ Looping(r.instance)

\* C21: no bound on iterations is enforced: in a cycle of auto states
\* connected by event-less transitions whose guards are absent or true and
\* whose hooks do not fail, every iteration of runUntilStable applies a
\* transition, makes the history one entry longer and leaves the instance
\* in the cycle, whatever the length of the history; runUntilStable never
\* returns from there.
C21_CycleNeverReturns ==
  /\ [](LoopGoesOn)
  /\ [][StabilizeReturn => ~Looping(current)]_vars

\* runUntilStable has gone round the cycle and is back in a state it has
\* been in before, still not returning
C21_Witness ==
  /\ pc = "stabilizing" /\ Looping(current)
  /\ Len(current.history) >= 4
  /\ current.history[Len(current.history)].stateId
       = current.history[Len(current.history) - 2].stateId

\* ---- a failure in the stabilization that follows a dispatch
\* sendEvent applied its transition and the stabilization after it ended
\* with a failure: a state that is missing, a target that is missing, or a
\* guard or hook that threw
StabilizationFailed ==
  /\ pc = "idle" /\ Applied
  /\ current.status = "running"
  /\ \/ ~HasState(workflow, current.currentState)
     \/ DanglingAuto(current)
     \/ /\ trace # << >>
        /\ Last(trace).by = "runUntilStable"
        /\ Last(trace).err # NoError

StabilizationThrown ==
  IF ~HasState(workflow, current.currentState)
    THEN StateNotFound(current.currentState)
  ELSE IF DanglingAuto(current) THEN "target not found"
  ELSE Last(trace).err

\* C22: when sendEvent's event transition applied and a later auto
\* transition fails during the stabilization that follows, sendEvent
\* returns transitioned = true with status error and the failure in error;
\* currentState and history are those after the last move that completed,
\* the first of which is the event move.
C22_FailureAfterDispatch ==
  StabilizationFailed =>
    /\ transitioned
    /\ ~raised
    /\ instance.status = "error"
    /\ instance.error = StabilizationThrown
    /\ instance.currentState = current.currentState
    /\ instance.history = current.history
    /\ Len(instance.history) > Len(arg.history)
    /\ instance.history[Len(arg.history) + 1].event = event
    /\ instance.currentState = Last(instance.history).stateId

\* the event move completed, into an auto state, and the onEnter of the
\* next target threw
C22_Witness ==
  /\ StabilizationFailed
  /\ transitioned /\ instance.status = "error"
  /\ Len(instance.history) = Len(arg.history) + 1
  /\ instance.currentState # arg.currentState
  /\ trace # << >>
  /\ Last(trace).hook = "onEnter"
  /\ instance.error = "E"

\* ---- the history as a path of the definition
\* entry k of the history follows entry k - 1 by a transition of the
\* definition with the recorded id and the recorded event
FollowsByTransition(history, k) ==
  /\ HasState(workflow, history[k - 1].stateId)
  /\ LET ts == workflow.states[history[k - 1].stateId].transitions
     IN \E i \in 1..Len(ts) :
          /\ ts[i].id = history[k].transitionId
          /\ ts[i].event = history[k].event
          /\ HasState(workflow, ts[i].target)
          /\ workflow.states[ts[i].target].id = history[k].stateId

PathOfDefinition(inst) ==
  inst.history # << >> =>
    /\ inst.history[1].stateId = workflow.initialState
    /\ inst.history[1].event = Undefined
    /\ \A k \in 2..Len(inst.history) : FollowsByTransition(inst.history, k)

HistoriesArePaths ==
  /\ PathOfDefinition(instance)
  /\ PathOfDefinition(current)
  /\ PathOfDefinition(arg)

EventRecordedByDispatchOnly ==
  /\ (\E e \in Events : SendEventApply(e)) =>
       (Last(current'.history).event # Undefined
          /\ Last(current'.history).event = event')
  /\ StabilizeMove => Last(current'.history).event = Undefined

\* C23: the history of every instance reachable from startWorkflow by
\* sendEvent and runUntilStable is a path of the definition: its first
\* entry is the initial state, each later entry follows the one before by
\* a transition of the definition whose id and event are those the entry
\* records, and an entry records an event exactly when a dispatch produced
\* it.
C23_HistoryIsPath == [](HistoriesArePaths) /\ [][EventRecordedByDispatchOnly]_vars

\* ---- a context change while a send is in flight
\* since send i started, the provider's instance has changed in its context
\* only (which setContext and updateContext do), and the dispatch of send i
\* itself leaves the context as it found it
ChangedInFlight(i) ==
  /\ i \in 1..Len(sends)
  /\ instance.ctx # sends[i].snapshot.ctx
  /\ [instance EXCEPT !.ctx = sends[i].snapshot.ctx] = sends[i].snapshot
  /\ sendEvent(workflow, sends[i].snapshot, sends[i].event, clock).instance.ctx
       = sends[i].snapshot.ctx

\* C24: a context change made through updateContext or setContext while a
\* send is in flight is still in the provider's instance after that send
\* has resolved: the resolving send does not put back the context captured
\* when it started.
C24_ContextChangeSurvivesSend ==
  [][\A i \in 1..MaxSends :
       (SendResolve(i) /\ ChangedInFlight(i)) => instance'.ctx = instance.ctx]_vars

====
